---- MODULE Spec2Model ----
(***************************************************************************)
(* sap.ui.core.IntervalTrigger (IntervalTrigger-dbg.js): a trigger that    *)
(* publishes an event to its registered listeners every _iInterval         *)
(* milliseconds, built on an EventBus and on jQuery.sap.delayedCall.       *)
(*                                                                         *)
(* Time is discrete and relative: every scheduled callback carries the     *)
(* time that remains until it is due (rem), Tick lets one unit of time     *)
(* pass, and a callback fires when its remaining time is 0 (time does not  *)
(* pass beyond the due time of a live callback).  Every API call is one    *)
(* action that runs the whole handler, the synchronous publish and the     *)
(* listeners' nested calls into the trigger included.                      *)
(***************************************************************************)
EXTENDS Integers, Sequences, FiniteSets, TLC

\* ---------------------------------------------------------------- bounds
\* the longest list of registrations the bus is driven to
MaxSubs == 2
\* the most delayed calls that are live at once (reached only when listeners
\* call back into the trigger)
MaxTimers == 2

\* ---------------------------------------------------------------- inputs
\* the integers handed to the constructor and to setInterval
IntervalArgs == {-1, 0, 2, 3}
\* the constructor's optional argument: <<>> is "absent"
CtorArgs == {<<>>} \cup {<<x>> : x \in IntervalArgs}
\* a listener is the pair (fnFunction, oListener)
Listeners == {<<"f", "none">>, <<"f", "o">>, <<"g", "none">>}
\* what a listener does when the publish invokes it: nothing (<<>>), or one
\* call back into the trigger, made by listener who the first time it is invoked
Reactions ==
    {<<[who |-> w, op |-> "addListener", l |-> l, x |-> 0]>> : w \in Listeners, l \in Listeners}
    \cup {<<[who |-> w, op |-> "removeListener", l |-> l, x |-> 0]>> : w \in Listeners, l \in Listeners}
    \cup {<<[who |-> w, op |-> "setInterval", l |-> w, x |-> x]>> : w \in Listeners, x \in IntervalArgs}
NoReaction == <<>>

\* this._delayedCallId = null
NoHandle == 0

\* saturation of the clock that measures the time since the last publish
SinceCap == 1 + CHOOSE m \in IntervalArgs : \A x \in IntervalArgs : x <= m

VARIABLES
    iInterval,      \* this._iInterval
    oEventBus,      \* the registrations of _EVENT_ID on this._oEventBus, in order
    delayedCallId,  \* this._delayedCallId
    timers,         \* the scheduler's live delayed calls: [id, rem]
    destroyed,      \* destroy() has deleted _triggerProxy and _oEventBus
    since,          \* history: time since the last publish, saturating at SinceCap
    fTrack,         \* history: <<>> or <<pF, pA>>, see Track
    last            \* history: the step just taken

vars == <<iInterval, oEventBus, delayedCallId, timers, destroyed, since, fTrack, last>>

\* the listener the timing history follows
F0 == <<"f", "none">>

RECURSIVE RemoveFirst(_, _)
RemoveFirst(seq, e) ==
    IF seq = <<>> THEN <<>>
    ELSE IF Head(seq) = e THEN Tail(seq)
    ELSE <<Head(seq)>> \o RemoveFirst(Tail(seq), e)

Range(seq) == {seq[i] : i \in 1..Len(seq)}

\* ------------------------------------------------- collaborators (records)
\* The handlers work on a record s of the object's fields plus what the
\* running step has done so far: pubs (one entry per publish), threw, and re
\* (the reaction a listener has not made yet).

\* EventBus.subscribe(_EVENT_ID, fnFunction, oListener)
subscribe(s, l) == [s EXCEPT !.oEventBus = Append(@, l)]

\* EventBus.unsubscribe(_EVENT_ID, fnFunction, oListener): the exact pair, once
unsubscribe(s, l) == [s EXCEPT !.oEventBus = RemoveFirst(@, l)]

\* _defaultChannel.hasListeners(_EVENT_ID)
hasListeners(s) == s.oEventBus # <<>>

\* jQuery.sap.clearDelayedCall(id): clearTimeout; a fired or absent id is a no-op
clearDelayedCall(s, id) == [s EXCEPT !.timers = {t \in @ : t.id # id}]

\* the id setTimeout returns: one no live call has and the object does not hold
NewId(s) ==
    CHOOSE h \in 1..(Cardinality(s.timers) + 2) :
        /\ h # s.delayedCallId
        /\ \A t \in s.timers : t.id # h
        /\ \A k \in 1..(h - 1) : k = s.delayedCallId \/ \E t \in s.timers : t.id = k

\* jQuery.sap.delayedCall(iDelay, this, this._triggerProxy): schedules, returns id;
\* setTimeout runs a call whose delay is <= 0 as soon as it can
delayedCall(s, iDelay, id) ==
    [s EXCEPT !.timers = @ \cup {[id |-> id, rem |-> IF iDelay > 0 THEN iDelay ELSE 0]}]

RECURSIVE trigger(_)
RECURSIVE setIntervalOp(_, _)
RECURSIVE addListenerOp(_, _)
RECURSIVE publishTo(_, _)

\* removeListener that runs the evaluation step
removeListenerEager(s, l) == trigger(unsubscribe(s, l))

\* IntervalTrigger.prototype.removeListener
removeListenerOp(s, l) == unsubscribe(s, l)

\* one listener is called: it makes its reaction, if it has one to make
callListener(s, l) ==
    IF s.re # <<>> /\ s.re[1].who = l
    THEN LET r == s.re[1]
             s0 == [s EXCEPT !.re = <<>>]
         IN  CASE r.op = "addListener" -> addListenerOp(s0, r.l)
               [] r.op = "removeListener" -> removeListenerOp(s0, r.l)
               [] OTHER -> setIntervalOp(s0, r.x)
    ELSE s

\* the bus calls the listeners of a copy of its list, in registration order
publishTo(s, ls) ==
    IF ls = <<>> THEN s ELSE publishTo(callListener(s, Head(ls)), Tail(ls))

\* EventBus.publish(_EVENT_ID)
publish(s) ==
    publishTo([s EXCEPT !.pubs = Append(@, [interval |-> s.iInterval,
                                            to |-> s.oEventBus,
                                            gap |-> s.since]),
                        !.since = 0],
              s.oEventBus)

\* trigger without the clearDelayedCall of line 57
triggerNoClear(s) ==
    IF s.destroyed THEN [s EXCEPT !.threw = TRUE]
    ELSE IF s.iInterval > 0 /\ hasListeners(s)
         THEN LET s2 == publish(s)
                  id == NewId(s2)
              IN  [delayedCall(s2, s2.iInterval, id) EXCEPT !.delayedCallId = id]
         ELSE s

\* trigger without the interval test of line 61
triggerNoIntervalTest(s) ==
    LET s1 == clearDelayedCall(s, s.delayedCallId) IN
    IF s1.destroyed THEN [s1 EXCEPT !.threw = TRUE]
    ELSE IF hasListeners(s1)
         THEN LET s2 == publish(s1)
                  id == NewId(s2)
              IN  [delayedCall(s2, s2.iInterval, id) EXCEPT !.delayedCallId = id]
         ELSE s1

\* trigger without the listener test of line 61
triggerNoListenerTest(s) ==
    LET s1 == clearDelayedCall(s, s.delayedCallId) IN
    IF s1.destroyed THEN [s1 EXCEPT !.threw = TRUE]
    ELSE IF s1.iInterval > 0
         THEN LET s2 == publish(s1)
                  id == NewId(s2)
              IN  [delayedCall(s2, s2.iInterval, id) EXCEPT !.delayedCallId = id]
         ELSE s1

\* trigger that publishes and does not schedule the next call (line 64 lost)
triggerOnce(s) ==
    LET s1 == clearDelayedCall(s, s.delayedCallId) IN
    IF s1.destroyed THEN [s1 EXCEPT !.threw = TRUE]
    ELSE IF s1.iInterval > 0 /\ hasListeners(s1) THEN publish(s1) ELSE s1

\* var trigger = function() {...}, called with this = the trigger
trigger(s) ==
    LET s1 == clearDelayedCall(s, s.delayedCallId) IN
    \* this._oEventBus._defaultChannel of a deleted _oEventBus: TypeError
    IF s1.destroyed THEN [s1 EXCEPT !.threw = TRUE]
    ELSE IF s1.iInterval > 0 /\ hasListeners(s1)
         THEN LET s2 == publish(s1)
                  id == NewId(s2)
              IN  [delayedCall(s2, s2.iInterval, id) EXCEPT !.delayedCallId = id]
         ELSE s1

\* setInterval without the test of line 100
setIntervalAlways(s, x) == trigger([s EXCEPT !.iInterval = x])

\* setInterval that runs the evaluation step before it stores the interval
setIntervalStale(s, x) ==
    IF s.iInterval # x THEN [trigger(s) EXCEPT !.iInterval = x] ELSE s

\* setInterval that stores 0 for an argument below 0
setIntervalClamping(s, x) ==
    LET y == IF x < 0 THEN 0 ELSE x IN
    IF s.iInterval # y THEN trigger([s EXCEPT !.iInterval = y]) ELSE s

\* setInterval that stores the interval and does not run the evaluation step
setIntervalStoreOnly(s, x) ==
    IF s.iInterval # x THEN [s EXCEPT !.iInterval = x] ELSE s

\* IntervalTrigger.prototype.setInterval
setIntervalOp(s, x) ==
    IF s.iInterval # x THEN trigger([s EXCEPT !.iInterval = x]) ELSE s

\* addListener that registers and does not run the evaluation step
addListenerLazy(s, l) == subscribe(s, l)

\* addListener that runs the evaluation step only on a dormant trigger
addListenerIfDormant(s, l) ==
    IF s.timers = {} THEN trigger(subscribe(s, l)) ELSE subscribe(s, l)

\* IntervalTrigger.prototype.addListener
addListenerOp(s, l) == trigger(subscribe(s, l))

\* destroy that cancels the pending delayed call
destroyCancelling(s) ==
    [clearDelayedCall(s, s.delayedCallId) EXCEPT !.destroyed = TRUE, !.oEventBus = <<>>]

\* IntervalTrigger.prototype.destroy
destroyOp(s) == [s EXCEPT !.destroyed = TRUE, !.oEventBus = <<>>]

\* constructor : function(iInterval)
constructor(a) ==
    LET s == [iInterval |-> 0, oEventBus |-> <<>>, delayedCallId |-> NoHandle,
              timers |-> {}, destroyed |-> FALSE, since |-> SinceCap,
              pubs |-> <<>>, threw |-> FALSE, re |-> <<>>]
    IN  IF a # <<>> /\ a[1] # 0 THEN setIntervalOp(s, a[1]) ELSE s

\* ------------------------------------------------------------ the machine
\* the object as the step finds it, with the reaction re a listener will make
Cur(re) ==
    [iInterval |-> iInterval, oEventBus |-> oEventBus, delayedCallId |-> delayedCallId,
     timers |-> timers, destroyed |-> destroyed, since |-> since,
     pubs |-> <<>>, threw |-> FALSE, re |-> re]

Pre ==
    [iInterval |-> iInterval, oEventBus |-> oEventBus,
     delayedCallId |-> delayedCallId, timers |-> timers]

NoListener == <<"", "">>

\* fTrack follows listener F0 from its addListener call (made with interval > 0)
\* for as long as F0 stays registered, the interval is not changed and the
\* trigger is not destroyed: pF is the time since that call and pA the time
\* since the most recent addListener call, both modulo the interval.
Track(s, op, l) ==
    IF s.destroyed \/ s.iInterval <= 0 \/ F0 \notin Range(s.oEventBus) THEN <<>>
    ELSE IF op = "addListener" /\ l = F0 THEN <<0, 0>>
    ELSE IF fTrack = <<>> \/ s.iInterval # iInterval THEN <<>>
    ELSE IF op = "addListener" THEN <<fTrack[1], 0>>
    ELSE fTrack

\* the call a listener made during the step: <<>> when none was made
Made(re, s) ==
    IF re # <<>> /\ s.re = <<>> THEN <<[op |-> re[1].op, x |-> re[1].x]>> ELSE <<>>

Commit(s, op, l, x, re) ==
    /\ iInterval' = s.iInterval
    /\ oEventBus' = s.oEventBus
    /\ delayedCallId' = s.delayedCallId
    /\ timers' = s.timers
    /\ destroyed' = s.destroyed
    /\ since' = s.since
    /\ fTrack' = Track(s, op, l)
    /\ last' = [op |-> op, l |-> l, x |-> x, re |-> Made(re, s), pubs |-> s.pubs,
                threw |-> s.threw, pre |-> Pre]

\* the registrations stay within MaxSubs and the live delayed calls within
\* MaxTimers, what the reaction adds included
Room(n, re) ==
    /\ n + (IF re # <<>> /\ re[1].op = "addListener" THEN 1 ELSE 0) <= MaxSubs
    /\ re # <<>> => Cardinality(timers) < MaxTimers

Init ==
    \E a \in CtorArgs :
        LET s == constructor(a) IN
        /\ iInterval = s.iInterval
        /\ oEventBus = s.oEventBus
        /\ delayedCallId = s.delayedCallId
        /\ timers = s.timers
        /\ destroyed = s.destroyed
        /\ since = s.since
        /\ fTrack = <<>>
        /\ last = [op |-> "constructor", l |-> NoListener,
                   x |-> IF a = <<>> THEN 0 ELSE a[1], re |-> <<>>,
                   pubs |-> s.pubs, threw |-> s.threw,
                   pre |-> [iInterval |-> 0, oEventBus |-> <<>>,
                            delayedCallId |-> NoHandle, timers |-> {}]]

\* The client calls the API of a trigger it has not destroyed ("after
\* teardown the trigger must not be used").
SetInterval(x, re) ==
    /\ ~destroyed
    /\ Room(Len(oEventBus), re)
    /\ Commit(setIntervalOp(Cur(re), x), "setInterval", NoListener, x, re)

AddListener(l, re) ==
    /\ ~destroyed
    /\ Room(Len(oEventBus) + 1, re)
    /\ Commit(addListenerOp(Cur(re), l), "addListener", l, 0, re)

RemoveListener(l) ==
    /\ ~destroyed
    /\ Commit(removeListenerOp(Cur(<<>>), l), "removeListener", l, 0, <<>>)

Destroy ==
    /\ ~destroyed
    /\ Commit(destroyOp(Cur(<<>>)), "destroy", NoListener, 0, <<>>)

\* the scheduler runs a delayed call that is due: this._triggerProxy, once
Fire(t, re) ==
    /\ t \in timers
    /\ t.rem = 0
    /\ Room(Len(oEventBus), re)
    /\ Commit(trigger([Cur(re) EXCEPT !.timers = @ \ {t}]), "fire", NoListener, 0, re)

\* one unit of time passes; no live delayed call is overdue
Tick ==
    /\ \A t \in timers : t.rem > 0
    /\ timers' = {[t EXCEPT !.rem = @ - 1] : t \in timers}
    /\ since' = IF since < SinceCap THEN since + 1 ELSE since
    /\ fTrack' = IF fTrack = <<>> THEN <<>>
                 ELSE <<(fTrack[1] + 1) % iInterval, (fTrack[2] + 1) % iInterval>>
    /\ last' = [op |-> "tick", l |-> NoListener, x |-> 0, re |-> <<>>, pubs |-> <<>>,
                threw |-> FALSE, pre |-> Pre]
    /\ UNCHANGED <<iInterval, oEventBus, delayedCallId, destroyed>>

\* listeners that only receive the event
Next ==
    \/ \E x \in IntervalArgs : SetInterval(x, NoReaction)
    \/ \E l \in Listeners : AddListener(l, NoReaction)
    \/ \E l \in Listeners : RemoveListener(l)
    \/ Destroy
    \/ \E t \in timers : Fire(t, NoReaction)
    \/ Tick

Spec == Init /\ [][Next]_vars

\* listeners that may call back into the trigger while they are invoked
NextRe ==
    \/ \E x \in IntervalArgs, re \in Reactions \cup {NoReaction} : SetInterval(x, re)
    \/ \E l \in Listeners, re \in Reactions \cup {NoReaction} : AddListener(l, re)
    \/ \E l \in Listeners : RemoveListener(l)
    \/ Destroy
    \/ \E t \in timers, re \in Reactions \cup {NoReaction} : Fire(t, re)
    \/ Tick

SpecRe == Init /\ [][NextRe]_vars

\* the scheduler fires every delayed call that is due, and time passes
SpecLive ==
    /\ Init /\ [][Next]_vars
    /\ WF_vars(Tick)
    /\ WF_vars(\E t \in timers : Fire(t, NoReaction))

\* ------------------------------------------------------------- the claims
Armed == timers # {}
Dormant == timers = {}
\* the step just taken notified listener F0
NotifiedF0 == \E i \in 1..Len(last.pubs) : F0 \in Range(last.pubs[i].to)

\* C1: with listeners that only receive the event, at most one scheduled
\* callback handle is live in every reachable state, and it is the one the
\* trigger holds in _delayedCallId: the evaluation step cancels the stored
\* handle before it schedules a new one.
C1_AtMostOneHandle ==
    /\ Cardinality(timers) <= 1
    /\ \A t \in timers : t.id = delayedCallId

\* an addListener call on an armed trigger has cancelled the pending handle and
\* scheduled a new one
C1_Witness ==
    /\ last.op = "addListener"
    /\ last.pre.timers # {}
    /\ last.pubs # <<>>
    /\ timers # {} /\ timers # last.pre.timers

\* C2: when a listener calls addListener, removeListener or setInterval on the
\* trigger while the publish invokes it, at most one scheduled callback handle
\* is live once the outermost evaluation step has returned.
C2_Original ==
    (last.re # <<>> /\ Cardinality(last.pre.timers) <= 1) => Cardinality(timers) <= 1

\* C3 as stated: between t and t + interval there is never more than one
\* publish (every publish an addListener call or a timer firing makes comes at
\* least one interval after the publish before it) and never fewer than one.
C3_Original ==
    /\ last.op \in {"addListener", "fire"} =>
          \A i \in 1..Len(last.pubs) : last.pubs[i].gap >= last.pubs[i].interval
    /\ (~destroyed /\ iInterval > 0 /\ oEventBus # <<>>) => since <= iInterval

\* C3 as amended: while at least one listener is registered and interval > 0
\* the time since the last publish never exceeds the interval and the pending
\* callback is due exactly one interval after that publish; a timer firing
\* that publishes publishes once, exactly one interval after the publish
\* before it; every addListener call made with interval > 0 publishes once
\* more, at once (so one interval can hold several publishes).
C3_Amended ==
    /\ (~destroyed /\ iInterval > 0 /\ oEventBus # <<>>) =>
          /\ since <= iInterval
          /\ \E t \in timers : t.rem = iInterval - since
    /\ (last.op = "fire" /\ last.pubs # <<>>) =>
          /\ Len(last.pubs) = 1
          /\ last.pubs[1].gap = last.pubs[1].interval
    /\ (last.op = "addListener" /\ iInterval > 0) => Len(last.pubs) = 1

\* a second addListener call has published less than one interval after the
\* publish before it
C3_Witness ==
    /\ last.op = "addListener"
    /\ Len(oEventBus) >= 2
    /\ last.pubs # <<>>
    /\ last.pubs[1].gap < last.pubs[1].interval

\* C4: every publish happens with interval > 0 and at least one registered
\* listener, whoever ran the evaluation step; with interval <= 0 an
\* addListener call publishes nothing.
C4_PublishOnlyWhenActive ==
    /\ \A i \in 1..Len(last.pubs) :
          last.pubs[i].interval > 0 /\ last.pubs[i].to # <<>>
    /\ (last.op = "addListener" /\ iInterval <= 0) => last.pubs = <<>>

\* addListener has registered a listener on a trigger whose interval is <= 0
C4_Witness ==
    /\ last.op = "addListener"
    /\ iInterval <= 0
    /\ oEventBus # <<>>

\* C5: setInterval(x) with x equal to the current interval publishes nothing
\* and leaves the interval, the registrations, the stored handle, the live
\* handles and their due times as they were.
C5_SameIntervalNoOp ==
    (last.op = "setInterval" /\ last.x = last.pre.iInterval) =>
        /\ last.pubs = <<>>
        /\ iInterval = last.pre.iInterval
        /\ oEventBus = last.pre.oEventBus
        /\ delayedCallId = last.pre.delayedCallId
        /\ timers = last.pre.timers

\* setInterval was called with the current interval on an armed trigger whose
\* pending callback is already part way to its due time
C5_Witness ==
    /\ last.op = "setInterval"
    /\ last.x = last.pre.iInterval
    /\ \E t \in timers : t.rem > 0 /\ t.rem < iInterval

\* C6: while the interval is <= 0 (from the return of setInterval(x), x <= 0,
\* until setInterval is called with a positive value) no scheduled callback
\* handle is live and no step publishes, with or without listeners.
C6_DormantWhileOff ==
    iInterval <= 0 => (timers = {} /\ last.pubs = <<>>)

\* setInterval(x), x <= 0, was called on a trigger that had listeners and had
\* been armed by a publish at this very instant
C6_Witness ==
    /\ last.op = "setInterval"
    /\ last.x <= 0
    /\ last.pre.timers # {}
    /\ oEventBus # <<>>
    /\ since = 0

\* C7 as stated: for as long as f stays registered, the interval is not
\* changed and the trigger is not destroyed, the pending callback is due at a
\* multiple of the interval after f's addListener call.
C7_Original ==
    fTrack # <<>> =>
        \E t \in timers : t.id = delayedCallId /\ (fTrack[1] + t.rem) % iInterval = 0

\* C7 as amended: under the same conditions the pending callback is due at a
\* multiple of the interval after the most recent addListener call (every
\* addListener call restarts the period), each firing publishes once to f and
\* re-arms with the full interval, and f is notified infinitely often.
C7_Amended ==
    /\ [](fTrack # <<>> =>
            /\ \E t \in timers :
                  t.id = delayedCallId /\ (fTrack[2] + t.rem) % iInterval = 0
            /\ last.op = "fire" =>
                  /\ Len(last.pubs) = 1
                  /\ F0 \in Range(last.pubs[1].to)
                  /\ \E t \in timers : t.rem = iInterval)
    /\ []<>(fTrack = <<>> \/ NotifiedF0)

\* a timer firing has notified f, which has stayed registered since its
\* addListener call
C7_Witness ==
    /\ last.op = "fire"
    /\ fTrack # <<>>
    /\ NotifiedF0

C9_RemoveListenerFrame ==
    last.op = "removeListener" =>
        /\ last.pubs = <<>>
        /\ oEventBus = RemoveFirst(last.pre.oEventBus, last.l)
        /\ iInterval = last.pre.iInterval
        /\ delayedCallId = last.pre.delayedCallId
        /\ timers = last.pre.timers

\* removeListener has removed the last listener of an armed trigger
C9_Witness ==
    /\ last.op = "removeListener"
    /\ last.pre.oEventBus # <<>>
    /\ oEventBus = <<>>
    /\ timers # {}

\* C10: destroy leaves the pending scheduled callback live, and the callback
\* that fires after destroy throws on the released event bus: it publishes
\* nothing and schedules nothing.
C10_DestroyKeepsTimer ==
    /\ last.op = "destroy" =>
          (timers = last.pre.timers /\ delayedCallId = last.pre.delayedCallId)
    /\ (last.op = "fire" /\ destroyed) =>
          (last.threw /\ last.pubs = <<>> /\ timers = {})

\* the stale callback has fired after destroy
C10_Witness ==
    /\ last.op = "fire"
    /\ destroyed
    /\ last.threw

\* C11: addListener registers the pair and runs the evaluation step: with
\* interval > 0 every call (the first, a later one, a repeated pair) cancels
\* the pending handle, publishes exactly once to all the listeners now
\* registered and leaves one new handle, due one interval after the call; with
\* interval <= 0 it publishes nothing and leaves the trigger dormant.
C11_AddListenerEvaluates ==
    last.op = "addListener" =>
        /\ oEventBus = Append(last.pre.oEventBus, last.l)
        /\ iInterval = last.pre.iInterval
        /\ IF iInterval > 0
           THEN /\ Len(last.pubs) = 1
                /\ last.pubs[1].to = oEventBus
                /\ timers = {[id |-> delayedCallId, rem |-> iInterval]}
                /\ delayedCallId # last.pre.delayedCallId
                /\ timers \cap last.pre.timers = {}
           ELSE last.pubs = <<>> /\ timers = {}

\* addListener has registered, on an armed trigger, a pair that was registered
\* already
C11_Witness ==
    /\ last.op = "addListener"
    /\ last.l \in Range(last.pre.oEventBus)
    /\ last.pre.timers # {}
    /\ iInterval > 0

\* C12: setInterval(x) with x different from the current interval stores x and
\* runs the evaluation step: with x > 0 and a listener registered the pending
\* handle is cancelled, one publish happens and exactly one new handle is
\* scheduled, with delay x; otherwise nothing is published and the trigger is
\* dormant with interval = x.
C12_SetIntervalEvaluates ==
    (last.op = "setInterval" /\ last.x # last.pre.iInterval) =>
        /\ iInterval = last.x
        /\ oEventBus = last.pre.oEventBus
        /\ IF last.x > 0 /\ oEventBus # <<>>
           THEN /\ Len(last.pubs) = 1
                /\ last.pubs[1].interval = last.x
                /\ timers = {[id |-> delayedCallId, rem |-> last.x]}
                /\ delayedCallId # last.pre.delayedCallId
                /\ timers \cap last.pre.timers = {}
           ELSE last.pubs = <<>> /\ timers = {}

\* setInterval has changed the positive interval of an armed trigger with
\* listeners to another positive value
C12_Witness ==
    /\ last.op = "setInterval"
    /\ last.x > 0
    /\ last.pre.iInterval > 0
    /\ last.x # last.pre.iInterval
    /\ last.pre.timers # {}
    /\ oEventBus # <<>>

\* C13: construction publishes nothing and schedules nothing, whatever the
\* interval argument; a step that publishes leaves listeners registered, so no
\* publish comes before the first addListener call.
C13_ConstructedDormant ==
    /\ last.op = "constructor" =>
          /\ last.pubs = <<>>
          /\ timers = {}
          /\ delayedCallId = NoHandle
          /\ oEventBus = <<>>
    /\ last.pubs # <<>> => oEventBus # <<>>

\* a trigger was constructed with a positive interval
C13_Witness ==
    /\ last.op = "constructor"
    /\ iInterval > 0

\* C14 as stated: the stored interval is a non-negative integer in every
\* reachable state.
C14_Original == iInterval >= 0

\* C14 as amended: the stored interval is an integer, 0 after a construction
\* without argument and otherwise exactly the value last given to the
\* constructor or to setInterval, a negative value included; no other
\* operation changes it.
C14_Amended ==
    /\ iInterval \in IntervalArgs \cup {0}
    /\ last.op \in {"constructor", "setInterval"} => iInterval = last.x
    /\ last.op \notin {"constructor", "setInterval"} => iInterval = last.pre.iInterval

\* setInterval has stored a negative interval
C14_Witness ==
    /\ last.op = "setInterval"
    /\ last.x < 0
    /\ iInterval < 0

\* C15: when a listener calls setInterval(x), x <= 0, while the publish
\* invokes it (on a trigger whose only live handle was the stored one), no
\* scheduled callback handle is live once the outermost evaluation step has
\* returned with interval <= 0.
C15_Original ==
    (/\ last.re # <<>>
     /\ last.re[1].op = "setInterval"
     /\ last.re[1].x <= 0
     /\ iInterval <= 0
     /\ \A t \in last.pre.timers : t.id = last.pre.delayedCallId) =>
        timers = {}

\* C16: in every state of a trigger that is not destroyed and whose listeners
\* only receive the event, interval > 0 and a registered listener mean that
\* exactly one scheduled callback handle is live: the stored one, due within
\* one interval.
C16_NeverStuckDormant ==
    (~destroyed /\ iInterval > 0 /\ oEventBus # <<>>) =>
        /\ Cardinality(timers) = 1
        /\ \A t \in timers : t.id = delayedCallId /\ t.rem <= iInterval

\* setInterval has switched on a dormant trigger that had listeners
C16_Witness ==
    /\ last.op = "setInterval"
    /\ last.pre.iInterval <= 0
    /\ last.pre.timers = {}
    /\ iInterval > 0
    /\ oEventBus # <<>>

====
